---- MODULE Spec2Model ----
(***************************************************************************)
(* A model of the music visualizer of src/main.py: the banding of one      *)
(* spectrogram column (get_frequency_bands), the mapping of the bands to   *)
(* circles on the shared pygame surface (draw_frame), and the sequential   *)
(* pipeline of create_animation and main (codec trial, frame loop, writer  *)
(* release, ffmpeg mux).                                                   *)
(*                                                                         *)
(* Real numbers are exact rationals <<num, den>> with den > 0.  The sine   *)
(* of frame_index * 0.1 is a fixed-point table in thousandths.  The pixel  *)
(* buffer is sampled at a grid of probe pixels.                            *)
(***************************************************************************)
EXTENDS Integers, Sequences, FiniteSets, TLC

(* ------------------------------ constants ------------------------------ *)

\* np.array_split(magnitudes, 10) and np.zeros(10)
NumBands == 10
\* MusicVisualizer.__init__(self, width=800, height=600)
Width == 800
Height == 600
\* fps = 30
FPS == 30
\* librosa.load resamples to 22050 Hz; librosa.stft hops by 512 samples
SampleRate == 22050
HopLength == 512

\* self.bg_color
bg_color == <<0, 0, 0>>

\* codecs = ['mp4v', 'avc1', 'H264']
codecs == <<"mp4v", "avc1", "H264">>

(* ------------------------------- bounds -------------------------------- *)

\* frequency bins of a spectrogram: NumBands .. MaxBins (librosa gives 1025)
MaxBins == 11
\* time frames of a spectrogram that draw_frame is exercised on directly
MaxCols == 2
\* largest magnitude of a flat or single-bin column
MaxMag == 2
\* audio files in the downloads directory
MaxFiles == 2
\* video frames of the longest audio file
MaxVideoFrames == 2

(* ------------------------------- helpers ------------------------------- *)

\* F(v) with v evaluated once, as an assignment to a local variable is
Once(v, F(_)) == CHOOSE r \in {F(x) : x \in {v}} : TRUE

\* the function f on 1..n as the sequence <<f[1], ..., f[n]>>
AsSeq(f) == f \o <<>>

(* ------------------------------ rationals ------------------------------ *)

Zero == <<0, 1>>

RLeq(a, b) == a[1] * b[2] <= b[1] * a[2]

RPositive(a) == a[1] > 0

\* a / b for b > 0
RDiv(a, b) == <<a[1] * b[2], a[2] * b[1]>>

\* int(num/den) for den > 0: Python's int() truncates toward zero
IntTrunc(num, den) ==
    IF num >= 0 THEN num \div den ELSE -((-num) \div den)

\* the nearest integer to num/den, halves upward
IntRound(num, den) == (2 * num + den) \div (2 * den)

RECURSIVE SumTo(_, _, _)
\* col[lo] + ... + col[hi]
SumTo(col, lo, hi) ==
    IF lo > hi THEN 0 ELSE col[hi] + SumTo(col, lo, hi - 1)

(* ---------------------------- spectrograms ----------------------------- *)

\* self.stft is a sequence of columns (time frames), each a sequence of
\* non-negative magnitudes, one per frequency bin
Silence(B) == [k \in 1..B |-> 0]
Flat(B, m) == [k \in 1..B |-> m]
Spike(B, p, m) == [k \in 1..B |-> IF k = p THEN m ELSE 0]
RampUp(B) == [k \in 1..B |-> k]
RampDown(B) == [k \in 1..B |-> B + 1 - k]
Step(B, p) == [k \in 1..B |-> IF k <= p THEN 1 ELSE 2]

Columns(B) ==
    {Silence(B), RampUp(B), RampDown(B)}
        \cup {Flat(B, m) : m \in 1..MaxMag}
        \cup {Spike(B, p, m) : p \in 1..B, m \in 1..MaxMag}
        \cup {Step(B, p) : p \in 1..(B - 1)}

Rotate(col, f) ==
    LET B == Len(col) IN [k \in 1..B |-> col[((k - 1 + f) % B) + 1]]

\* the spectrogram of n time frames grown from one column
Spectrogram(base, n, kind) ==
    [f \in 1..n |->
        CASE kind = "const" -> base
          [] kind = "rot" -> Rotate(base, f - 1)
          [] OTHER -> IF f % 2 = 1 THEN base ELSE Silence(Len(base))]

SpectrogramKinds == {"const", "rot", "fade"}

Spectrograms ==
    UNION {{Spectrogram(base, n, kind) :
                base \in Columns(B), n \in 1..MaxCols, kind \in SpectrogramKinds} :
            B \in NumBands..MaxBins}

\* the spectrograms that draw_frame is exercised on
DrawColumns(B) ==
    {Silence(B), RampUp(B), RampDown(B), Spike(B, 1, MaxMag), Step(B, 1)}

DrawSpectrograms ==
    UNION {{Spectrogram(base, n, kind) :
                base \in DrawColumns(B), n \in 1..MaxCols, kind \in {"rot", "fade"}} :
            B \in NumBands..MaxBins}

(* ------------------------- get_frequency_bands ------------------------- *)

NoCol == -1

\* array_split with the larger sections put last instead of first
SectionSize_LargerLast(B, k) ==
    IF k > NumBands - (B % NumBands) THEN (B \div NumBands) + 1 ELSE B \div NumBands

\* numpy's array_split: Neach, extras = divmod(Ntotal, Nsections);
\* section_sizes = extras * [Neach + 1] + (Nsections - extras) * [Neach]
SectionSize(B, k) ==
    IF k <= B % NumBands THEN (B \div NumBands) + 1 ELSE B \div NumBands

RECURSIVE DivPoint(_, _)
\* div_points = cumsum([0] + section_sizes)
DivPoint(B, k) ==
    IF k = 0 THEN 0 ELSE DivPoint(B, k - 1) + SectionSize(B, k)

\* sub_arys[k] = ary[div_points[k] : div_points[k + 1]], as 1-based <<lo, hi>>
array_split(B) ==
    AsSeq([k \in 1..NumBands |-> <<DivPoint(B, k - 1) + 1, DivPoint(B, k)>>])

\* np.mean(band)
Mean(col, grp) == <<SumTo(col, grp[1], grp[2]), grp[2] - grp[1] + 1>>

\* the guard written with > instead of >=
PastEnd_Strict(frame_index, n) == frame_index > n

\* if frame_index >= self.stft.shape[1]
PastEnd(frame_index, n) == frame_index >= n

\* numpy's self.stft[:, frame_index] on an axis of length n: the 0-based
\* column read, counting from the end for a negative index, or NoCol for
\* an IndexError
ColumnIndex(frame_index, n) ==
    IF frame_index >= 0 /\ frame_index < n THEN frame_index
    ELSE IF frame_index < 0 /\ frame_index >= -n THEN n + frame_index
    ELSE NoCol

\* np.array([np.mean(band) for band in bands])
Means(col, grps) == AsSeq([k \in 1..Len(grps) |-> Mean(col, grps[k])])

\* np.zeros(k)
Zeros(k) == AsSeq([i \in 1..k |-> Zero])

get_frequency_bands(st, frame_index) ==
    IF PastEnd(frame_index, Len(st))
    THEN [status |-> "ok", bands |-> Zeros(NumBands), col |-> NoCol,
          groups |-> <<>>]
    ELSE Once(ColumnIndex(frame_index, Len(st)), LAMBDA c :
         IF c = NoCol
         THEN [status |-> "IndexError", bands |-> <<>>, col |-> NoCol,
               groups |-> <<>>]
         ELSE Once(st[c + 1], LAMBDA magnitudes :
              Once(array_split(Len(magnitudes)), LAMBDA bands :
                 [status |-> "ok",
                  bands |-> Means(magnitudes, bands),
                  col |-> c, groups |-> bands])))

(* ------------------------------ draw_frame ----------------------------- *)

\* round(1000 * sin(0.1 * k)) for k = 0, 1, ...
SinMilli == <<0, 100, 199, 296, 389, 479, 565, 644, 717, 783, 841, 891>>

\* np.sin(frame_index * 0.1), in thousandths
Sin(frame_index) ==
    IF frame_index >= 0 THEN SinMilli[frame_index + 1]
    ELSE -SinMilli[(-frame_index) + 1]

RECURSIVE MaxOf(_, _)
\* np.max(bands)
MaxOf(bands, k) ==
    IF k = 1 THEN bands[1]
    ELSE Once(MaxOf(bands, k - 1), LAMBDA m :
         IF RLeq(bands[k], m) THEN m ELSE bands[k])

\* a channel rounded to the nearest integer instead of truncated
Channel_Rounded(num, den) == IntRound(num, den)

\* int(c) of one colour channel c = num/den
Channel(num, den) == IntTrunc(num, den)

\* color = (int(255 * magnitude), int(100 + 155 * magnitude),
\*          int(200 * (1 - magnitude)))
Color(mag) ==
    <<Channel(255 * mag[1], mag[2]),
      Channel(100 * mag[2] + 155 * mag[1], mag[2]),
      Channel(200 * (mag[2] - mag[1]), mag[2])>>

\* the circle with the base radius and the radius gain exchanged
Circle_GainSwapped(i, mag, frame_index) ==
    [x |-> IntTrunc(Width * (i + 1), NumBands + 1),
     y |-> IntTrunc(Height * mag[2] * 1000 + 2 * mag[1] * 100 * Sin(frame_index),
                    2 * mag[2] * 1000),
     radius |-> IntTrunc(30 * mag[2] + 20 * mag[1], mag[2]),
     color |-> Color(mag),
     mag |-> mag]

\* one pygame.draw.circle call of the loop over enumerate(bands), i from 0
Circle(i, mag, frame_index) ==
    [x |-> IntTrunc(Width * (i + 1), NumBands + 1),
     y |-> IntTrunc(Height * mag[2] * 1000 + 2 * mag[1] * 100 * Sin(frame_index),
                    2 * mag[2] * 1000),
     radius |-> IntTrunc(20 * mag[2] + 30 * mag[1], mag[2]),
     color |-> Color(mag),
     mag |-> mag]

\* the pixels of the surface that the model samples, two per band: where the
\* band's circle rests, and 36 to the right and 25 below, between two bands
NumProbes == 2 * NumBands

Probe(i) ==
    IF i % 2 = 1
    THEN <<IntTrunc(Width * ((i + 1) \div 2), NumBands + 1), Height \div 2>>
    ELSE <<IntTrunc(Width * (i \div 2), NumBands + 1) + 36, (Height \div 2) + 25>>

\* whether pixel p is within radius of the centre of circle c
Inside(p, c) ==
    /\ p[1] - c.x <= c.radius
    /\ c.x - p[1] <= c.radius
    /\ (p[1] - c.x) * (p[1] - c.x) + (p[2] - c.y) * (p[2] - c.y)
          <= c.radius * c.radius

\* self.screen.fill(self.bg_color)
Fill(n) == AsSeq([i \in 1..n |-> bg_color])

\* the colour of probe i after the pygame.draw.circle(self.screen, color,
\* (int(x), int(y)), int(radius)) calls of one frame, made in increasing band
\* order: a pixel keeps the colour of the last circle that covers it
Painted(scr, cs, i) ==
    Once(Probe(i), LAMBDA p :
    Once({k \in 1..Len(cs) : Inside(p, cs[k])}, LAMBDA over :
       IF over = {} THEN scr[i]
       ELSE cs[CHOOSE k \in over : \A j \in over : j <= k].color))

DrawCircles(scr, cs) == AsSeq([i \in 1..Len(scr) |-> Painted(scr, cs, i)])

\* draw_frame without its screen.fill: the surface is drawn on as it is
Cleared_NoFill(scr) == scr

\* the surface draw_frame starts drawing on
Cleared(scr) == Fill(NumProbes)

\* bands / max_magnitude
Normalized(bands, max_magnitude) ==
    AsSeq([k \in 1..Len(bands) |-> RDiv(bands[k], max_magnitude)])

\* the circles of the loop over enumerate(bands)
CirclesOf(bands, frame_index) ==
    AsSeq([k \in 1..Len(bands) |-> Circle(k - 1, bands[k], frame_index)])

draw_frame(scr, st, frame_index) ==
    Once(get_frequency_bands(st, frame_index), LAMBDA got :
    Once(Cleared(scr), LAMBDA cleared :
    IF got.status # "ok"
    THEN [status |-> got.status, screen |-> cleared, circles |-> <<>>,
          divided |-> FALSE, got |-> got]
    ELSE Once(MaxOf(got.bands, NumBands), LAMBDA max_magnitude :
         Once(IF RPositive(max_magnitude)
              THEN Normalized(got.bands, max_magnitude)
              ELSE got.bands, LAMBDA bands :
         Once(CirclesOf(bands, frame_index), LAMBDA cs :
            [status |-> "ok",
             screen |-> DrawCircles(cleared, cs),
             circles |-> cs, divided |-> RPositive(max_magnitude),
             got |-> got])))))

(* ------------------------------ the state ------------------------------ *)

VARIABLES
    pc,            \* where main / create_animation stands
    downloads,     \* os.listdir(downloads_dir), in listing order
    audio_files,   \* the entries main keeps
    file_index,    \* position of the for loop over audio_files (1-based)
    started,       \* names passed to create_animation so far
    error,         \* the exception main re-raised, or "none"
    stft,          \* self.stft
    y,             \* len(self.y)
    total_frames,
    plan,          \* what each codec candidate does on this machine
    codec,         \* position of the for loop over codecs (1-based)
    tried,         \* per candidate: "Untried", "Opened" or "Failed"
    video,         \* the candidate whose writer `video` refers to, 0 for None
    released,      \* writers on which release() was called
    frame_index,   \* position of the frame loop
    rendered,      \* frame indices passed to draw_frame in this run
    encLog,        \* calls on the writer in this run: <<what, index, writer>>
    log,           \* logger records of this run: <<level, what, index>>
    muxResult,     \* how the ffmpeg step of this run went
    premux,        \* the file renamed to the temporary path in this run
    fs,            \* the file system: path -> file
    screen,        \* self.screen, at the probe pixels
    circles,       \* the pygame.draw.circle calls of the last draw_frame
    divided,       \* whether the last draw_frame divided by max_magnitude
    frame,         \* the buffer the last draw_frame returned
    call,          \* the last get_frequency_bands call
    ref            \* one earlier draw_frame call, kept for comparison

pipeVars ==
    <<pc, downloads, audio_files, file_index, started, error, y, total_frames,
      plan, codec, tried, video, released, frame_index, rendered, encLog, log,
      muxResult, premux, fs>>

drawVars == <<screen, circles, divided, frame, call>>

vars == <<pipeVars, stft, drawVars, ref>>

(* --------------------------- files and writers -------------------------- *)

Absent == [kind |-> "absent", frames |-> <<>>, audio |-> "none"]

NoCall ==
    [op |-> "none", frame_index |-> 0, status |-> "none", bands |-> <<>>,
     col |-> NoCol, groups |-> <<>>]

NoRef == [set |-> FALSE, frame_index |-> 0, frame |-> <<>>, between |-> FALSE]

\* an audio of v whole video frames and a bit: v / FPS seconds plus 400 samples
Samples(v) == (SampleRate * v) \div FPS + 400

DirEntries ==
    {[name |-> "notes", ext |-> "txt", decodable |-> FALSE, samples |-> 0,
      base |-> "none"],
     [name |-> "a", ext |-> "mp3", decodable |-> TRUE,
      samples |-> Samples(MaxVideoFrames), base |-> "ramp"],
     [name |-> "b", ext |-> "wav", decodable |-> FALSE, samples |-> 0,
      base |-> "none"],
     [name |-> "c", ext |-> "ogg", decodable |-> TRUE, samples |-> Samples(1),
      base |-> "silence"],
     [name |-> "d", ext |-> "mp3", decodable |-> TRUE, samples |-> Samples(0),
      base |-> "ramp"]}

Names == {e.name : e \in DirEntries}

Directories ==
    {d \in UNION {[1..n -> DirEntries] : n \in 0..MaxFiles} :
        \A i, j \in DOMAIN d : i # j => d[i].name # d[j].name}

Paths == {"out", "temp"} \X Names

RECURSIVE Keep(_, _)
\* [f for f in os.listdir(downloads_dir) if f.endswith(('.mp3', '.wav', '.ogg'))]
Keep(d, k) ==
    IF k = 0 THEN <<>>
    ELSE IF d[k].ext \in {"mp3", "wav", "ogg"}
         THEN Append(Keep(d, k - 1), d[k])
         ELSE Keep(d, k - 1)

\* librosa.load and np.abs(librosa.stft(self.y)): 1 + len(y) // hop columns
Decoded(e) ==
    Spectrogram(IF e.base = "ramp" THEN RampUp(MaxBins) ELSE Silence(NumBands),
                1 + (e.samples \div HopLength), "rot")

\* total_frames rounded up instead of truncated
TotalFrames_RoundedUp(samples) == IntTrunc(samples * FPS + SampleRate - 1, SampleRate)

\* total_frames = int(duration * fps), duration = len(y) / sr
TotalFrames(samples) == IntTrunc(samples * FPS, SampleRate)

Outcomes == {"opens", "notopen", "raises"}

MuxOutcomes == {"ok", "fail", "raise"}

\* video.isOpened()
isOpened(w) == tried[w] = "Opened" /\ w \notin released

\* the codec loop without its break: it goes on to the next candidate
AfterOpen_NoBreak(c) == c + 1

\* the break of the codec loop: the position the loop continues at
AfterOpen(c) == Len(codecs) + 1

\* a failed write that ends the frame loop (break instead of continue)
OnWriteError_Break(k) == total_frames

\* the continue of the frame loop after a failed write: the next index
OnWriteError(k) == k + 1

\* a handler inside main's for loop that logs and goes on to the next file
main_except_Isolated(i) ==
    IF i < Len(audio_files)
    THEN [pc |-> "create_animation", file_index |-> i + 1]
    ELSE [pc |-> "returned", file_index |-> i]

\* main's handler: logger.error(...); raise
main_except(i) == [pc |-> "raised", file_index |-> i]

(* ------------------------------- Init ---------------------------------- *)

InitDraw ==
    /\ screen = Fill(NumProbes)
    /\ circles = <<>>
    /\ divided = FALSE
    /\ frame = <<>>
    /\ call = NoCall
    /\ ref = NoRef

InitRun ==
    /\ y = 0
    /\ total_frames = 0
    /\ plan = [c \in 1..Len(codecs) |-> "opens"]
    /\ codec = 1
    /\ tried = [c \in 1..Len(codecs) |-> "Untried"]
    /\ video = 0
    /\ released = {}
    /\ frame_index = 0
    /\ rendered = <<>>
    /\ encLog = <<>>
    /\ log = {}
    /\ muxResult = "none"
    /\ premux = Absent

Init ==
    /\ pc = "main"
    /\ downloads \in Directories
    /\ audio_files = <<>>
    /\ file_index = 0
    /\ started = <<>>
    /\ error = "none"
    /\ stft = <<>>
    /\ fs = [p \in Paths |-> Absent]
    /\ InitRun
    /\ InitDraw

(* ------------------------ main and create_animation -------------------- *)

OutPath == <<"out", audio_files[file_index].name>>
TempPath == <<"temp", audio_files[file_index].name>>

CallOf(d, f) ==
    [op |-> "draw_frame", frame_index |-> f, status |-> d.got.status,
     bands |-> d.got.bands, col |-> d.got.col, groups |-> d.got.groups]

\* an exception leaves create_animation and reaches main's handler
Raise(kind) ==
    /\ error' = kind
    /\ pc' = main_except(file_index).pc
    /\ file_index' = main_except(file_index).file_index

\* main up to the for loop: the listing, the filter, the empty case
main_start ==
    /\ pc = "main"
    /\ LET kept == Keep(downloads, Len(downloads)) IN
       /\ audio_files' = kept
       /\ IF kept = <<>>
          THEN /\ pc' = "returned"
               /\ file_index' = 0
               /\ log' = log \cup {<<"error", "no audio files", 0>>}
          ELSE /\ pc' = "create_animation"
               /\ file_index' = 1
               /\ log' = log
    /\ UNCHANGED <<downloads, started, error, stft, y, total_frames, plan, codec,
                   tried, video, released, frame_index, rendered, encLog,
                   muxResult, premux, fs, drawVars, ref>>

\* create_animation up to the codec loop: load_audio, duration, total_frames
create_animation_start ==
    /\ pc = "create_animation"
    /\ started' = Append(started, audio_files[file_index].name)
    /\ codec' = 1
    /\ tried' = [c \in 1..Len(codecs) |-> "Untried"]
    /\ video' = 0
    /\ released' = {}
    /\ frame_index' = 0
    /\ rendered' = <<>>
    /\ encLog' = <<>>
    /\ muxResult' = "none"
    /\ premux' = Absent
    /\ IF audio_files[file_index].decodable
       THEN /\ stft' = Decoded(audio_files[file_index])
            /\ y' = audio_files[file_index].samples
            /\ total_frames' = TotalFrames(audio_files[file_index].samples)
            /\ plan' \in [1..Len(codecs) -> Outcomes]
            /\ log' = {}
            /\ pc' = "codecs"
            /\ UNCHANGED <<error, file_index>>
       ELSE /\ Raise("DecodeError")
            /\ log' = {<<"error", "main", 0>>}
            /\ UNCHANGED <<stft, y, total_frames, plan>>
    /\ UNCHANGED <<downloads, audio_files, fs, drawVars, ref>>

\* one iteration of the loop over codecs
try_codec ==
    /\ pc = "codecs"
    /\ codec <= Len(codecs)
    /\ CASE plan[codec] = "opens" ->
              /\ tried' = [tried EXCEPT ![codec] = "Opened"]
              /\ video' = codec
              /\ codec' = AfterOpen(codec)
              /\ fs' = [fs EXCEPT ![OutPath] =
                            [kind |-> "video", frames |-> <<>>, audio |-> "none"]]
              /\ log' = log \cup {<<"info", "codec", codec>>}
              /\ released' = released
         [] plan[codec] = "notopen" ->
              /\ tried' = [tried EXCEPT ![codec] = "Failed"]
              /\ video' = codec
              /\ codec' = codec + 1
              /\ UNCHANGED <<fs, log, released>>
         [] OTHER ->
              /\ tried' = [tried EXCEPT ![codec] = "Failed"]
              /\ log' = log \cup {<<"warning", "codec", codec>>}
              /\ released' = IF video # 0 THEN released \cup {video} ELSE released
              /\ codec' = codec + 1
              /\ UNCHANGED <<fs, video>>
    /\ UNCHANGED <<pc, downloads, audio_files, file_index, started, error, stft, y,
                   total_frames, plan, frame_index, rendered, encLog, muxResult,
                   premux, drawVars, ref>>

\* if not video.isOpened(): ... raise Exception(error_msg)
check_opened ==
    /\ pc = "codecs"
    /\ codec > Len(codecs)
    /\ IF video = 0
       THEN /\ Raise("AttributeError")
            /\ log' = log \cup {<<"error", "main", 0>>}
       ELSE IF ~isOpened(video)
       THEN /\ Raise("EncoderError")
            /\ log' = log \cup {<<"error", "no writer", 0>>, <<"error", "main", 0>>}
       ELSE /\ pc' = "frames"
            /\ log' = log \cup {<<"info", "frames", 0>>}
            /\ UNCHANGED <<error, file_index>>
    /\ UNCHANGED <<downloads, audio_files, started, stft, y, total_frames, plan,
                   codec, tried, video, released, frame_index, rendered, encLog,
                   muxResult, premux, fs, drawVars, ref>>

\* one iteration of the frame loop: draw_frame, then video.write.  The buffer
\* of a Width x Height surface is never None or empty, so the validity check
\* never skips a frame; astype, resize and cvtColor keep the frame's index
frame_step ==
    /\ pc = "frames"
    /\ frame_index < total_frames
    /\ \E d \in {draw_frame(screen, stft, frame_index)} :
       /\ screen' = d.screen
       /\ circles' = d.circles
       /\ divided' = d.divided
       /\ call' = CallOf(d, frame_index)
       /\ rendered' = Append(rendered, frame_index)
       /\ IF d.status # "ok"
          THEN /\ Raise(d.status)
               /\ log' = log \cup {<<"error", "main", 0>>}
               /\ UNCHANGED <<frame, encLog, fs, frame_index>>
          ELSE /\ frame' = d.screen
               /\ UNCHANGED <<pc, error, file_index>>
               /\ \E written \in BOOLEAN :
                     IF written
                     THEN /\ encLog' = Append(encLog, <<"write", frame_index, video>>)
                          /\ fs' = [fs EXCEPT ![OutPath].frames =
                                        Append(@, frame_index)]
                          /\ frame_index' = frame_index + 1
                          /\ log' = log
                     ELSE /\ encLog' = Append(encLog, <<"fail", frame_index, video>>)
                          /\ log' = log \cup {<<"error", "write", frame_index>>}
                          /\ frame_index' = OnWriteError(frame_index)
                          /\ fs' = fs
    /\ UNCHANGED <<downloads, audio_files, started, stft, y, total_frames, plan,
                   codec, tried, video, released, muxResult, premux, ref>>

\* video.release(), then os.rename(output_path, temp_video)
finish_video ==
    /\ pc = "frames"
    /\ frame_index >= total_frames
    /\ released' = released \cup {video}
    /\ encLog' = Append(encLog, <<"release", 0, video>>)
    /\ premux' = fs[OutPath]
    /\ fs' = [fs EXCEPT ![TempPath] = fs[OutPath], ![OutPath] = Absent]
    /\ pc' = "mux"
    /\ UNCHANGED <<downloads, audio_files, file_index, started, error, stft, y,
                   total_frames, plan, codec, tried, video, frame_index, rendered,
                   log, muxResult, drawVars, ref>>

\* the try block around os.system(ffmpeg_cmd) and os.remove(temp_video), and
\* its handler.  "fail": ffmpeg exits unsuccessfully and writes no output,
\* which os.system reports in its return value; "raise": the block raises
mux ==
    /\ pc = "mux"
    /\ \E o \in MuxOutcomes :
          /\ muxResult' = o
          /\ CASE o = "ok" ->
                    /\ fs' = [fs EXCEPT
                                ![OutPath] = [fs[TempPath] EXCEPT
                                                !.audio = audio_files[file_index].name],
                                ![TempPath] = Absent]
                    /\ log' = log \cup {<<"info", "mux", 0>>}
               [] o = "fail" ->
                    /\ fs' = [fs EXCEPT ![TempPath] = Absent]
                    /\ log' = log \cup {<<"info", "mux", 0>>}
               [] OTHER ->
                    /\ log' = log \cup {<<"error", "mux", 0>>}
                    /\ fs' = IF fs[TempPath].kind # "absent"
                             THEN [fs EXCEPT ![OutPath] = fs[TempPath],
                                             ![TempPath] = Absent]
                             ELSE fs
    /\ pc' = "file_done"
    /\ UNCHANGED <<downloads, audio_files, file_index, started, error, stft, y,
                   total_frames, plan, codec, tried, video, released, frame_index,
                   rendered, encLog, premux, drawVars, ref>>

\* create_animation returned: the next iteration of main's for loop
next_file ==
    /\ pc = "file_done"
    /\ IF file_index < Len(audio_files)
       THEN /\ file_index' = file_index + 1
            /\ pc' = "create_animation"
       ELSE /\ pc' = "returned"
            /\ file_index' = file_index
    /\ UNCHANGED <<downloads, audio_files, started, error, stft, y, total_frames,
                   plan, codec, tried, video, released, frame_index, rendered,
                   encLog, log, muxResult, premux, fs, drawVars, ref>>

Next ==
    \/ main_start
    \/ create_animation_start
    \/ try_codec
    \/ check_opened
    \/ frame_step
    \/ finish_video
    \/ mux
    \/ next_file

Spec == Init /\ [][Next]_vars

(* ------------------- the two methods called directly -------------------- *)

FrameIndices == (-(MaxCols + 1))..(MaxCols + 1)

InitIdle ==
    /\ pc = "idle"
    /\ downloads = <<>>
    /\ audio_files = <<>>
    /\ file_index = 0
    /\ started = <<>>
    /\ error = "none"
    /\ fs = [p \in Paths |-> Absent]
    /\ InitRun
    /\ InitDraw

InitLoadedDraw == InitIdle /\ stft \in DrawSpectrograms

InitLoadedBands == InitIdle /\ stft \in Spectrograms

\* visualizer.draw_frame(f) on a loaded visualizer
CallDrawFrame ==
    /\ pc = "idle"
    /\ \E f \in FrameIndices :
          \E d \in {draw_frame(screen, stft, f)} :
          /\ screen' = d.screen
          /\ circles' = d.circles
          /\ divided' = d.divided
          /\ call' = CallOf(d, f)
          /\ IF d.status # "ok"
             THEN UNCHANGED <<frame, ref>>
             ELSE /\ frame' = d.screen
                  /\ \E keep \in (IF ref.set THEN {FALSE} ELSE BOOLEAN) :
                        ref' = IF ~ref.set /\ keep
                               THEN [set |-> TRUE, frame_index |-> f,
                                     frame |-> d.screen, between |-> FALSE]
                               ELSE IF ref.set /\ d.screen # ref.frame
                               THEN [ref EXCEPT !.between = TRUE]
                               ELSE ref
    /\ UNCHANGED <<pipeVars, stft>>

NextDraw == CallDrawFrame

SpecDraw == InitLoadedDraw /\ [][NextDraw]_vars

\* visualizer.get_frequency_bands(f) on a loaded visualizer
CallGetFrequencyBands ==
    /\ pc = "idle"
    /\ \E f \in FrameIndices :
          \E got \in {get_frequency_bands(stft, f)} :
          call' = [op |-> "get_frequency_bands", frame_index |-> f,
                   status |-> got.status, bands |-> got.bands, col |-> got.col,
                   groups |-> got.groups]
    /\ UNCHANGED <<pipeVars, stft, screen, circles, divided, frame, ref>>

NextBands == CallGetFrequencyBands

SpecBands == InitLoadedBands /\ [][NextBands]_vars

(* ------------------------------ properties ----------------------------- *)

InRange(f) == f >= 0 /\ f < Len(stft)

GroupSize(g) == g[2] - g[1] + 1

AllZero(bands) == Len(bands) = 10 /\ \A k \in 1..10 : bands[k][1] = 0

\* C2: for a frame_index within [0, frame_count), get_frequency_bands returns
\* exactly 10 non-negative values; value k is the arithmetic mean of the k-th
\* of 10 contiguous groups of bins in ascending order; every bin is in exactly
\* one group; group sizes differ by at most 1 and the larger groups come first
C2_BandsPartition ==
    (call.op = "get_frequency_bands" /\ InRange(call.frame_index)) =>
        LET col == stft[call.frame_index + 1]
            g == call.groups
        IN /\ call.status = "ok"
           /\ call.col = call.frame_index
           /\ Len(call.bands) = 10
           /\ Len(g) = 10
           /\ \A b \in 1..Len(col) :
                 Cardinality({k \in 1..10 : g[k][1] <= b /\ b <= g[k][2]}) = 1
           /\ \A k \in 1..10 : g[k][1] >= 1 /\ g[k][2] <= Len(col)
           /\ \A k \in 1..9 : g[k][2] < g[k + 1][1]
           /\ \A j, k \in 1..10 : GroupSize(g[j]) - GroupSize(g[k]) <= 1
           /\ \A k \in 1..9 : GroupSize(g[k]) >= GroupSize(g[k + 1])
           /\ \A k \in 1..10 :
                 /\ call.bands[k][2] = GroupSize(g[k])
                 /\ call.bands[k][2] > 0
                 /\ call.bands[k][1] = SumTo(col, g[k][1], g[k][2])
                 /\ call.bands[k][1] >= 0

\* a column of a bin count that 10 does not divide, with sound in its first bin
C2_Witness ==
    /\ call.op = "get_frequency_bands"
    /\ InRange(call.frame_index)
    /\ Len(stft[call.frame_index + 1]) % 10 # 0
    /\ call.bands[1][1] > 0
    /\ call.bands[10][1] = 0

\* C3 as stated: for every frame_index outside [0, frame_count), above or
\* below, get_frequency_bands returns 10 zeros and reads no column
C3_Original ==
    (call.op = "get_frequency_bands" /\ ~InRange(call.frame_index)) =>
        /\ call.status = "ok"
        /\ AllZero(call.bands)
        /\ call.col = NoCol

\* C3 amended: for every frame_index >= frame_count, get_frequency_bands
\* returns 10 zeros and reads no column; a negative frame_index is indexed from
\* the end (column frame_count + frame_index) or, below -frame_count, raises
C3_PastEndZeros ==
    call.op = "get_frequency_bands" =>
        /\ call.frame_index >= Len(stft) =>
              /\ call.status = "ok"
              /\ AllZero(call.bands)
              /\ call.col = NoCol
        /\ (call.frame_index < 0 /\ call.frame_index >= -Len(stft)) =>
              /\ call.status = "ok"
              /\ call.col = Len(stft) + call.frame_index
        /\ call.frame_index < -Len(stft) => call.status = "IndexError"

\* the first frame_index past the end, on a spectrogram that is not silent
C3_Witness ==
    /\ call.op = "get_frequency_bands"
    /\ call.frame_index = Len(stft)
    /\ AllZero(call.bands)
    /\ \E k \in 1..Len(stft[Len(stft)]) : stft[Len(stft)][k] > 0

\* C8: for a frame whose band vector is all zeros, draw_frame does not divide
\* and draws exactly 10 circles, each of radius 20, colour (0, 100, 200) and
\* vertical centre height / 2, whatever the frame_index
C8_SilentFrame ==
    (call.op = "draw_frame" /\ call.status = "ok" /\ AllZero(call.bands)) =>
        /\ ~divided
        /\ Len(circles) = 10
        /\ \A k \in 1..10 :
              /\ circles[k].radius = 20
              /\ circles[k].color = <<0, 100, 200>>
              /\ 2 * circles[k].y = Height

\* a silent column read at a frame_index whose sine is not zero
C8_Witness ==
    /\ call.op = "draw_frame"
    /\ call.status = "ok"
    /\ call.col # NoCol
    /\ call.frame_index > 0
    /\ AllZero(call.bands)
    /\ Len(circles) = 10

\* C9: draw_frame called again with the frame_index of an earlier call on the
\* same spectrogram returns the buffer that call returned, whatever was drawn
\* on the shared surface before either call or between them
C9_Deterministic ==
    (call.op = "draw_frame" /\ call.status = "ok" /\ ref.set
        /\ ref.frame_index = call.frame_index) => frame = ref.frame

\* the frame_index of the kept call drawn again after a frame that differs
C9_Witness ==
    /\ call.op = "draw_frame"
    /\ call.status = "ok"
    /\ ref.set
    /\ ref.between
    /\ ref.frame_index = call.frame_index
    /\ frame = ref.frame

Abs(a) == IF a >= 0 THEN a ELSE -a

ChannelsInRange(c) == \A j \in 1..3 : c.color[j] >= 0 /\ c.color[j] <= 255

\* C10 as stated: each colour channel is the nearest integer to 255 n,
\* 100 + 155 n and 200 (1 - n), and lies in [0, 255]
C10_Original ==
    \A k \in 1..Len(circles) :
        LET c == circles[k]
            n == c.mag[1]
            d == c.mag[2]
        IN /\ 2 * Abs(255 * n - c.color[1] * d) <= d
           /\ 2 * Abs(100 * d + 155 * n - c.color[2] * d) <= d
           /\ 2 * Abs(200 * (d - n) - c.color[3] * d) <= d
           /\ ChannelsInRange(c)

\* C10 amended: for a normalized magnitude n in [0, 1] each colour channel is
\* 255 n, 100 + 155 n and 200 (1 - n) truncated to an integer (the largest
\* integer not above it), and lies in [0, 255]
C10_Truncated ==
    \A k \in 1..Len(circles) :
        LET c == circles[k]
            n == c.mag[1]
            d == c.mag[2]
        IN /\ n >= 0 /\ n <= d
           /\ c.color[1] * d <= 255 * n
           /\ 255 * n < (c.color[1] + 1) * d
           /\ c.color[2] * d <= 100 * d + 155 * n
           /\ 100 * d + 155 * n < (c.color[2] + 1) * d
           /\ c.color[3] * d <= 200 * (d - n)
           /\ 200 * (d - n) < (c.color[3] + 1) * d
           /\ ChannelsInRange(c)

\* a band whose red channel has a fractional part above one half
C10_Witness ==
    \E k \in 1..Len(circles) :
        2 * ((255 * circles[k].mag[1]) % circles[k].mag[2]) > circles[k].mag[2]

\* the first candidate that opens on this machine, 0 if none does
FirstOpens ==
    IF \E c \in 1..3 : plan[c] = "opens"
    THEN CHOOSE c \in 1..3 :
            plan[c] = "opens" /\ \A b \in 1..(c - 1) : plan[b] # "opens"
    ELSE 0

Submitted == {i \in 1..Len(encLog) : encLog[i][1] \in {"write", "fail"}}

Writes == {i \in 1..Len(encLog) : encLog[i][1] = "write"}

Failures == {i \in 1..Len(encLog) : encLog[i][1] = "fail"}

InFrameLoopOrLater == pc \in {"frames", "mux", "file_done"}

\* C1 as stated: when the mux step fails, create_animation finishes with the
\* final output path holding the pre-mux silent video
C1_SilentVideoKept ==
    (pc = "file_done" /\ muxResult \in {"fail", "raise"}) =>
        /\ premux.kind = "video"
        /\ fs[OutPath] = premux

\* C4: the candidates are tried in the order mp4v, avc1, H264 and the trial
\* stops at the first one that opens; every frame is written to that writer,
\* whatever each candidate does; if none opens, create_animation raises before
\* a frame is rendered or written
C4_CodecFallback ==
    /\ codecs = <<"mp4v", "avc1", "H264">>
    /\ \A c \in 1..3 : tried[c] # "Untried" => \A b \in 1..(c - 1) : tried[b] = "Failed"
    /\ \A c \in 1..3 : tried[c] = "Opened" => c = FirstOpens
    /\ InFrameLoopOrLater =>
          /\ FirstOpens # 0
          /\ video = FirstOpens
          /\ tried[video] = "Opened"
          /\ \A i \in 1..Len(encLog) : encLog[i][3] = FirstOpens
    /\ FirstOpens = 0 =>
          /\ pc \in {"codecs", "raised"}
          /\ rendered = <<>>
          /\ encLog = <<>>
    /\ error \in {"EncoderError", "AttributeError"} =>
          /\ FirstOpens = 0
          /\ pc = "raised"
          /\ \A c \in 1..3 : tried[c] = "Failed"

\* the third candidate in use after the first did not open and the second raised
C4_Witness ==
    /\ pc = "file_done"
    /\ plan = <<"notopen", "raises", "opens">>
    /\ video = 3
    /\ Writes # {}

\* C5: a failed write of frame k is logged and the frame skipped; the run goes
\* on: every later index is rendered and submitted, the writer is released and
\* the mux step runs, whichever indices fail
C5_WriteFailureSkipped ==
    /\ \A i \in Failures :
          /\ <<"error", "write", encLog[i][2]>> \in log
          /\ \A p \in Paths : \A j \in 1..Len(fs[p].frames) :
                p[2] = audio_files[file_index].name => fs[p].frames[j] # encLog[i][2]
    /\ Failures # {} => (error = "none" /\ pc # "raised")
    /\ pc \in {"mux", "file_done"} =>
          /\ Len(rendered) = total_frames
          /\ \A k \in 0..(total_frames - 1) :
                /\ rendered[k + 1] = k
                /\ encLog[k + 1][1] \in {"write", "fail"}
                /\ encLog[k + 1][2] = k
          /\ encLog[total_frames + 1][1] = "release"
          /\ video \in released
    /\ pc = "file_done" => muxResult \in MuxOutcomes

\* a run that finished after the write of frame 0 failed and frame 1 was written
C5_Witness ==
    /\ pc = "file_done"
    /\ Len(encLog) >= 3
    /\ encLog[1] = <<"fail", 0, video>>
    /\ encLog[2] = <<"write", 1, video>>
    /\ muxResult = "ok"

MainEnded == pc \in {"returned", "raised"}

\* C6 as stated: a decode or encoder failure on one file aborts only that file;
\* every discovered file is still passed to create_animation
C6_Original ==
    (MainEnded /\ error \in {"DecodeError", "EncoderError", "AttributeError"}) =>
        Len(started) = Len(audio_files)

\* C6 amended: a decode or encoder failure on one file is logged and re-raised
\* by main, which ends the batch: the files before it and the failing file
\* were passed to create_animation, and no file after it is
C6_BatchAborts ==
    /\ error # "none" =>
          /\ error \in {"DecodeError", "EncoderError", "AttributeError"}
          /\ pc = "raised"
          /\ <<"error", "main", 0>> \in log
          /\ Len(started) = file_index
    /\ Len(started) <= Len(audio_files)
    /\ \A i \in 1..Len(started) : started[i] = audio_files[i].name

\* main ended on a failure with a discovered file never processed
C6_Witness ==
    /\ pc = "raised"
    /\ error = "EncoderError"
    /\ file_index < Len(audio_files)

\* C7: frames are rendered and handed to the encoder one at a time in strictly
\* increasing index order: each index in [0, total_frames), total_frames =
\* floor(duration * 30), is rendered exactly once; the written indices
\* increase strictly; nothing is written after the writer is released
C7_SequentialFrames ==
    /\ \A j \in 1..Len(rendered) : rendered[j] = j - 1
    /\ Len(rendered) <= (y * 30) \div SampleRate
    /\ pc \in {"mux", "file_done"} => Len(rendered) = (y * 30) \div SampleRate
    /\ \A i, j \in Submitted : i < j => encLog[i][2] < encLog[j][2]
    /\ Cardinality(Submitted) = Len(rendered)
    /\ \A i, j \in 1..Len(encLog) :
          (i < j /\ encLog[i][1] = "release") => encLog[j][1] \notin {"write", "fail"}

\* a finished run of at least two frames, all written
C7_Witness ==
    /\ pc = "file_done"
    /\ Len(rendered) >= 2
    /\ Cardinality(Writes) = Len(rendered)
    /\ encLog[Len(encLog)][1] = "release"

====
